---------------------------- MODULE Spec2Model ----------------------------
(***************************************************************************)
(* Model of src/src/App.jsx: the implied-forward-rate calculator.          *)
(*                                                                         *)
(* The page holds two numbers (inputs.oneYearRate, inputs.twoYearRate),    *)
(* validates them (validateInputs), and computes the forward-rate model    *)
(* (calculateForwardRates) when validation returns no key.                 *)
(*                                                                         *)
(* JavaScript numbers are IEEE 754 binary64 values.  They are modelled     *)
(* bit-exactly: a finite number is sign, 53-bit significand and exponent,  *)
(* every operation rounds to nearest, ties to even, and NaN, the           *)
(* infinities and the signed zeros are values.  Significands do not fit    *)
(* TLC's integers, so natural numbers are little-endian sequences of       *)
(* limbs (the B... operators).                                             *)
(***************************************************************************)
EXTENDS Integers, Sequences, FiniteSets, TLC

-----------------------------------------------------------------------------
(* Natural numbers of any size: <<l1, l2, ...>> is l1 + l2*BASE + ...,      *)
(* with no zero limb at the top; <<>> is 0.                                 *)

BASE == 2^15

\* body with v bound to the value of e, as a const declaration binds it: unlike
\* a LET definition, e is evaluated once however often body uses v
With(e, body(_)) == body(e)

Min(a, b) == IF a <= b THEN a ELSE b
Max(a, b) == IF a >= b THEN a ELSE b

Limb(a, i) == IF i >= 1 /\ i <= Len(a) THEN a[i] ELSE 0

RECURSIVE BNorm(_)
BNorm(a) ==
    IF a = <<>> THEN a
    ELSE IF a[Len(a)] = 0 THEN BNorm(SubSeq(a, 1, Len(a) - 1))
    ELSE a

\* a small natural (below BASE^2) as limbs
BNat(n) ==
    IF n = 0 THEN <<>>
    ELSE IF n < BASE THEN <<n>>
    ELSE <<n % BASE, n \div BASE>>

RECURSIVE BAddC(_, _, _)
BAddC(a, b, c) ==
    IF a = <<>> /\ b = <<>> THEN (IF c = 0 THEN <<>> ELSE <<c>>)
    ELSE IF b = <<>> /\ c = 0 THEN a
    ELSE IF a = <<>> /\ c = 0 THEN b
    ELSE LET s == Limb(a, 1) + Limb(b, 1) + c
         IN  <<s % BASE>> \o BAddC(IF a = <<>> THEN a ELSE Tail(a),
                                   IF b = <<>> THEN b ELSE Tail(b),
                                   s \div BASE)

BAdd(a, b) == BAddC(a, b, 0)

\* a - b with borrow c, for a >= b + c; the result may carry zero top limbs
RECURSIVE BSubC(_, _, _)
BSubC(a, b, c) ==
    IF b = <<>> /\ c = 0 THEN a
    ELSE LET d == Limb(a, 1) - Limb(b, 1) - c
         IN  <<IF d < 0 THEN d + BASE ELSE d>>
             \o BSubC(Tail(a), IF b = <<>> THEN b ELSE Tail(b),
                      IF d < 0 THEN 1 ELSE 0)

BSub(a, b) == BNorm(BSubC(a, b, 0))

\* compare from limb i downwards, for numbers of equal length
RECURSIVE BCmpFrom(_, _, _)
BCmpFrom(a, b, i) ==
    IF i = 0 THEN 0
    ELSE IF a[i] < b[i] THEN -1
    ELSE IF a[i] > b[i] THEN 1
    ELSE BCmpFrom(a, b, i - 1)

\* -1, 0, 1 as a < b, a = b, a > b
BCmp(a, b) ==
    IF Len(a) < Len(b) THEN -1
    ELSE IF Len(a) > Len(b) THEN 1
    ELSE BCmpFrom(a, b, Len(a))

\* a * k + c for 0 <= k, c < BASE
RECURSIVE BMulSmallC(_, _, _)
BMulSmallC(a, k, c) ==
    IF a = <<>> THEN (IF c = 0 THEN <<>> ELSE <<c>>)
    ELSE LET p == Head(a) * k + c
         IN  <<p % BASE>> \o BMulSmallC(Tail(a), k, p \div BASE)

BMulSmall(a, k) == IF k = 0 THEN <<>> ELSE BMulSmallC(a, k, 0)

\* a * BASE^n
RECURSIVE BShlLimbs(_, _)
BShlLimbs(a, n) ==
    IF a = <<>> \/ n = 0 THEN a ELSE BShlLimbs(<<0>> \o a, n - 1)

RECURSIVE BMul(_, _)
BMul(a, b) ==
    IF a = <<>> \/ b = <<>> THEN <<>>
    ELSE BAdd(BMulSmall(a, Head(b)), BShlLimbs(BMul(a, Tail(b)), 1))

\* a * 2^n
BShl(a, n) == BShlLimbs(BMulSmall(a, 2^(n % 15)), n \div 15)

\* floor(a / k) for 0 < k < BASE, from limb i downwards with remainder r
RECURSIVE BDivSmallR(_, _, _, _)
BDivSmallR(a, k, i, r) ==
    IF i = 0 THEN <<>>
    ELSE LET t == r * BASE + a[i]
         IN  BDivSmallR(a, k, i - 1, t % k) \o <<t \div k>>

BDivSmall(a, k) == BNorm(BDivSmallR(a, k, Len(a), 0))

\* floor(a / 2^n)
BShr(a, n) ==
    LET w == n \div 15
    IN  IF w >= Len(a) THEN <<>>
        ELSE BDivSmall(SubSeq(a, w + 1, Len(a)), 2^(n % 15))

\* a mod 2^n
BLow(a, n) ==
    LET w == n \div 15
    IN  IF w >= Len(a) THEN a
        ELSE BNorm(SubSeq(a, 1, w) \o <<a[w + 1] % (2^(n % 15))>>)

\* number of bits of a limb
RECURSIVE LimbBits(_)
LimbBits(x) == IF x = 0 THEN 0 ELSE 1 + LimbBits(x \div 2)

BBitLen(a) == IF a = <<>> THEN 0 ELSE 15 * (Len(a) - 1) + LimbBits(a[Len(a)])

BIsOdd(a) == a # <<>> /\ a[1] % 2 = 1

\* the largest d <= qh with b * d <= r
RECURSIVE BDivFix(_, _, _)
BDivFix(b, r, qh) ==
    IF BCmp(BMulSmall(b, qh), r) > 0 THEN BDivFix(b, r, qh - 1) ELSE qh

\* long division by limbs: st.i counts the limbs of a still to bring down onto
\* the remainder st.r; b has its top bit set, so the quotient digit guessed
\* from the two top limbs of the remainder rn is at most 2 too large
BDivStep(b, st, rn) ==
    With(BDivFix(b, rn, Min((Limb(rn, Len(b) + 1) * BASE + Limb(rn, Len(b)))
                                \div b[Len(b)], BASE - 1)),
         LAMBDA d : [i |-> st.i - 1, q |-> <<d>> \o st.q,
                     r |-> BSub(rn, BMulSmall(b, d))])

RECURSIVE BDivLoop(_, _, _)
BDivLoop(a, b, st) ==
    IF st.i = 0 THEN [q |-> BNorm(st.q), r |-> st.r]
    ELSE BDivLoop(a, b, BDivStep(b, st, BNorm(<<a[st.i]>> \o st.r)))

\* the division of a and b both shifted left by s bits
BDivShifted(a, b, s) ==
    With(BDivLoop(a, b, [i |-> Len(a), q |-> <<>>, r |-> <<>>]),
         LAMBDA dm : [q |-> dm.q, r |-> BShr(dm.r, s)])

\* [q |-> floor(a / b), r |-> a mod b] for b > 0
BDivMod(a, b) ==
    With(15 * Len(b) - BBitLen(b),
         LAMBDA s : BDivShifted(BShl(a, s), BShl(b, s), s))

-----------------------------------------------------------------------------
(* JavaScript Number values.  [c |-> "fin", s, m, e] is (-1)^s * m * 2^e    *)
(* with m a natural of at most P bits, of exactly P bits unless e = EMIN    *)
(* (a subnormal, or a zero when m = 0); "inf" and "nan" are the others.     *)
(* Every value has one representation, so = on them is bit equality.        *)

P    == 53
EMIN == -1074
EMAX == 971

NaN == [c |-> "nan", s |-> 0, m |-> <<>>, e |-> 0]
Inf(s) == [c |-> "inf", s |-> s, m |-> <<>>, e |-> 0]
Zero(s) == [c |-> "fin", s |-> s, m |-> <<>>, e |-> EMIN]

IsNaN(x) == x.c = "nan"
IsInf(x) == x.c = "inf"
IsZero(x) == x.c = "fin" /\ x.m = <<>>
IsFinite(x) == x.c = "fin"

\* a significand and exponent after rounding: the carry out of the top bit
\* moves the exponent, an exponent past EMAX is an infinity
Pack(s, m, e) ==
    LET over == BBitLen(m) > P
        m2   == IF over THEN BShr(m, 1) ELSE m
        e2   == IF over THEN e + 1 ELSE e
    IN  IF e2 > EMAX THEN Inf(s) ELSE [c |-> "fin", s |-> s, m |-> m2, e |-> e2]

\* M / 2^d rounded to an integer, ties to even; a tie with sticky goes up
RoundShift(M, d, sticky, q) ==
    With(BCmp(BLow(M, d), BShl(<<1>>, d - 1)),
         LAMBDA c : IF c > 0 \/ (c = 0 /\ (sticky \/ BIsOdd(q)))
                    THEN BAdd(q, <<1>>) ELSE q)

\* the Number nearest to (-1)^s * (M + f) * 2^E, where 0 < f < 1 when sticky
\* and f = 0 otherwise; ties go to the even significand.  With sticky, M has
\* more than P bits.
Round(s, M, E, sticky) ==
    IF M = <<>> THEN Zero(s)
    ELSE With(Max(BBitLen(M) - P, EMIN - E),
              LAMBDA d : IF d <= 0 THEN Pack(s, BShl(M, -d), E + d)
                         ELSE Pack(s, RoundShift(M, d, sticky, BShr(M, d)), E + d))

\* the Number nearest to (-1)^s * (N / D) * 2^E, for N, D > 0
RoundQuot(s, N, D, E) ==
    With(Max(0, BBitLen(D) + P + 3 - BBitLen(N)),
         LAMBDA k : With(BDivMod(BShl(N, k), D),
                         LAMBDA dm : Round(s, dm.q, E - k, dm.r # <<>>)))

FNeg(x) == IF IsNaN(x) THEN x ELSE [x EXCEPT !.s = 1 - x.s]

\* Math.abs
MathAbs(x) == IF IsNaN(x) THEN x ELSE [x EXCEPT !.s = 0]

\* (-1)^sa * A * 2^E + (-1)^sb * B * 2^E, for A, B > 0
FAddAligned(sa, A, sb, B, E) ==
    IF sa = sb THEN Round(sa, BAdd(A, B), E, FALSE)
    ELSE With(BCmp(A, B),
              LAMBDA c : IF c = 0 THEN Zero(0)
                         ELSE IF c > 0 THEN Round(sa, BSub(A, B), E, FALSE)
                         ELSE Round(sb, BSub(B, A), E, FALSE))

\* hi + lo for finite non-zero Numbers with hi.e >= lo.e.  When the exponents
\* are more than P + 3 apart, lo only decides the direction of rounding.
FAddOrdered(hi, lo) ==
    IF hi.e - lo.e > P + 3
    THEN (IF hi.s = lo.s THEN Round(hi.s, BShl(hi.m, 2), hi.e - 2, TRUE)
          ELSE Round(hi.s, BSub(BShl(hi.m, 2), <<1>>), hi.e - 2, TRUE))
    ELSE FAddAligned(hi.s, BShl(hi.m, hi.e - lo.e), lo.s, lo.m, lo.e)

\* the sum of two finite non-zero Numbers
FAddFin(x, y) == IF x.e >= y.e THEN FAddOrdered(x, y) ELSE FAddOrdered(y, x)

\* x + y
FAdd(x, y) ==
    IF IsNaN(x) \/ IsNaN(y) THEN NaN
    ELSE IF IsInf(x) THEN (IF IsInf(y) /\ x.s # y.s THEN NaN ELSE x)
    ELSE IF IsInf(y) THEN y
    ELSE IF IsZero(x) /\ IsZero(y) THEN Zero(IF x.s = 1 /\ y.s = 1 THEN 1 ELSE 0)
    ELSE IF IsZero(x) THEN y
    ELSE IF IsZero(y) THEN x
    ELSE FAddFin(x, y)

\* x - y
FSub(x, y) == FAdd(x, FNeg(y))

Xor(a, b) == IF a = b THEN 0 ELSE 1

\* x * y
FMul(x, y) ==
    IF IsNaN(x) \/ IsNaN(y) THEN NaN
    ELSE IF IsInf(x) \/ IsInf(y)
         THEN (IF IsZero(x) \/ IsZero(y) THEN NaN ELSE Inf(Xor(x.s, y.s)))
    ELSE IF IsZero(x) \/ IsZero(y) THEN Zero(Xor(x.s, y.s))
    ELSE Round(Xor(x.s, y.s), BMul(x.m, y.m), x.e + y.e, FALSE)

\* x / y
FDiv(x, y) ==
    IF IsNaN(x) \/ IsNaN(y) THEN NaN
    ELSE IF IsInf(x) THEN (IF IsInf(y) THEN NaN ELSE Inf(Xor(x.s, y.s)))
    ELSE IF IsInf(y) THEN Zero(Xor(x.s, y.s))
    ELSE IF IsZero(y) THEN (IF IsZero(x) THEN NaN ELSE Inf(Xor(x.s, y.s)))
    ELSE IF IsZero(x) THEN Zero(Xor(x.s, y.s))
    ELSE RoundQuot(Xor(x.s, y.s), x.m, y.m, x.e - y.e)

\* Math.pow(x, 2): the correctly rounded square
MathPow2(x) == FMul(x, x)

\* -1, 0, 1 as |x| < |y|, |x| = |y|, |x| > |y|, for x and y not NaN
MagCmp(x, y) ==
    IF IsInf(x) THEN (IF IsInf(y) THEN 0 ELSE 1)
    ELSE IF IsInf(y) THEN -1
    ELSE IF x.e < y.e THEN -1
    ELSE IF x.e > y.e THEN 1
    ELSE BCmp(x.m, y.m)

Sgn(x) == IF IsZero(x) THEN 0 ELSE IF x.s = 1 THEN -1 ELSE 1

\* -1, 0, 1 as x < y, x = y, x > y, for x and y not NaN (-0 = +0)
FCmp(x, y) ==
    IF Sgn(x) # Sgn(y) THEN (IF Sgn(x) < Sgn(y) THEN -1 ELSE 1)
    ELSE IF Sgn(x) = 0 THEN 0
    ELSE Sgn(x) * MagCmp(x, y)

\* the relational operators: every comparison with NaN is false
FLt(x, y) == ~IsNaN(x) /\ ~IsNaN(y) /\ FCmp(x, y) < 0
FGt(x, y) == ~IsNaN(x) /\ ~IsNaN(y) /\ FCmp(x, y) > 0
FLe(x, y) == ~IsNaN(x) /\ ~IsNaN(y) /\ FCmp(x, y) <= 0
FGe(x, y) == ~IsNaN(x) /\ ~IsNaN(y) /\ FCmp(x, y) >= 0

\* ToBoolean of a Number: 0, -0 and NaN are falsy
Truthy(x) == ~IsNaN(x) /\ ~IsZero(x)

\* an integer literal of the source (below BASE^2) as a Number
Num(n) == Round(IF n < 0 THEN 1 ELSE 0, BNat(IF n < 0 THEN -n ELSE n), 0, FALSE)

-----------------------------------------------------------------------------
(* Strings are sequences of one-character strings.  ToNumber is the unary   *)
(* + of handleInputChange and the reading of the source's decimal literals: *)
(* the empty string is 0, [+-]Infinity is an infinity, a decimal literal    *)
(* [+-]digits[.digits][e[+-]digits] is the nearest Number to its value, and *)
(* anything else is NaN.                                                    *)

DigitChars == {"0", "1", "2", "3", "4", "5", "6", "7", "8", "9"}

DigitVal(ch) ==
    CASE ch = "0" -> 0 [] ch = "1" -> 1 [] ch = "2" -> 2 [] ch = "3" -> 3
      [] ch = "4" -> 4 [] ch = "5" -> 5 [] ch = "6" -> 6 [] ch = "7" -> 7
      [] ch = "8" -> 8 [] ch = "9" -> 9

CharAt(str, i) == IF i >= 1 /\ i <= Len(str) THEN str[i] ELSE ""

\* the digits of str from position st.i on: st.n accumulates their value and
\* st.cnt their number
RECURSIVE ScanDigits(_, _)
ScanDigits(str, st) ==
    IF CharAt(str, st.i) \in DigitChars
    THEN ScanDigits(str, [i   |-> st.i + 1,
                          n   |-> BMulSmallC(st.n, 10, DigitVal(str[st.i])),
                          cnt |-> st.cnt + 1])
    ELSE st

\* 10^k
RECURSIVE BPow10(_)
BPow10(k) ==
    IF k = 0 THEN <<1>>
    ELSE With(BPow10(k \div 2),
              LAMBDA h : IF k % 2 = 0 THEN BMul(h, h)
                         ELSE BMulSmall(BMul(h, h), 10))

\* a natural held in limbs as an integer, BASE standing for BASE and more
BSmall(a) == IF Len(a) > 1 THEN BASE ELSE Limb(a, 1)

InfinityChars == <<"I", "n", "f", "i", "n", "i", "t", "y">>

\* the decimal literal of str from position start on, with sign sg: ip is the
\* scan of the integer digits, fp of the fraction digits (fp.n is the value of
\* all the digits), ep of the exponent digits and ex the power of ten
ParseDecimal(str, sg, start) ==
    With(ScanDigits(str, [i |-> start, n |-> <<>>, cnt |-> 0]), LAMBDA ip :
    With(IF CharAt(str, ip.i) = "."
         THEN ScanDigits(str, [i |-> ip.i + 1, n |-> ip.n, cnt |-> 0])
         ELSE [i |-> ip.i, n |-> ip.n, cnt |-> 0], LAMBDA fp :
    With(IF CharAt(str, fp.i) \in {"e", "E"}
         THEN ScanDigits(str, [i   |-> IF CharAt(str, fp.i + 1) \in {"+", "-"}
                                       THEN fp.i + 2 ELSE fp.i + 1,
                               n   |-> <<>>, cnt |-> 0])
         ELSE [i |-> fp.i, n |-> <<>>, cnt |-> 1], LAMBDA ep :
    With((IF CharAt(str, fp.i) \in {"e", "E"} /\ CharAt(str, fp.i + 1) = "-"
          THEN -BSmall(ep.n) ELSE BSmall(ep.n)) - fp.cnt, LAMBDA ex :
        IF ip.cnt + fp.cnt = 0 \/ ep.cnt = 0 \/ ep.i # Len(str) + 1 THEN NaN
        ELSE IF fp.n = <<>> THEN Zero(sg)
        \* 10^311 and more is past the largest Number, less than 10^-330 is
        \* nearer to 0 than to the smallest one
        ELSE IF ex > 310 THEN Inf(sg)
        ELSE IF ex + ip.cnt + fp.cnt < -330 THEN Zero(sg)
        ELSE IF ex >= 0 THEN Round(sg, BMul(fp.n, BPow10(ex)), 0, FALSE)
        ELSE RoundQuot(sg, fp.n, BPow10(-ex), 0)))))

ToNumberSigned(str, sg, start) ==
    IF SubSeq(str, start, Len(str)) = InfinityChars THEN Inf(sg)
    ELSE ParseDecimal(str, sg, start)

ToNumber(str) ==
    IF str = <<>> THEN Zero(0)
    ELSE ToNumberSigned(str, IF str[1] = "-" THEN 1 ELSE 0,
                        IF str[1] \in {"+", "-"} THEN 2 ELSE 1)

-----------------------------------------------------------------------------
(* The program.                                                             *)

\* null
Null == [c |-> "null", s |-> 0, m |-> <<>>, e |-> 0]

\* the source's literals
Lit0001 == ToNumber(<<"0", ".", "0", "0", "1">>)
Lit05 == ToNumber(<<"0", ".", "5">>)

\* a value is null when it is the Null record; every other value of the
\* model is a Number record or an object with other fields
IsNull(v) == "c" \in DOMAIN v /\ v.c = "null"

\* the forward rate with the two spot rates exchanged
ForwardRate_Exchanged(r1, r2) ==
    FSub(FDiv(MathPow2(FAdd(Num(1), r1)), FAdd(Num(1), r2)), Num(1))

\* the forward rate from the two-year rate compounded once
ForwardRate_NoSquare(r1, r2) ==
    FSub(FDiv(FAdd(Num(1), r2), FAdd(Num(1), r1)), Num(1))

\* the forward rate without the subtraction of the principal
ForwardRate_GrossReturn(r1, r2) ==
    FDiv(MathPow2(FAdd(Num(1), r2)), FAdd(Num(1), r1))

\* line 76: the implied forward rate, as a decimal
ForwardRate(r1, r2) ==
    FSub(FDiv(MathPow2(FAdd(Num(1), r2)), FAdd(Num(1), r1)), Num(1))

\* line 80: the first one-year investment at maturity
Strategy1Year1(r1) == FMul(Num(100), FAdd(Num(1), r1))

\* line 81: reinvested at the forward rate
Strategy1Year2(strategy1Year1, forwardRate) ==
    FMul(strategy1Year1, FAdd(Num(1), forwardRate))

\* the two-year investment compounded for one year only
Strategy2Year2_OneYear(r2) == FMul(Num(100), FAdd(Num(1), r2))

\* line 84: the two-year investment at maturity
Strategy2Year2(r2) == FMul(Num(100), MathPow2(FAdd(Num(1), r2)))

\* line 87
ArbitrageDiff(strategy1Year2, strategy2Year2) ==
    MathAbs(FSub(strategy1Year2, strategy2Year2))

\* line 88
NoArbitrage(arbitrageDiff) == FLt(arbitrageDiff, Lit0001)

\* the range without its upper bound
IsValid_NoUpperBound(r1, r2) == FGt(r1, Num(0)) /\ FGt(r2, Num(0))

\* the bounds of the range taken as part of it
IsValid_Closed(r1, r2) ==
    /\ FGe(r1, Num(0)) /\ FGe(r2, Num(0))
    /\ FLe(r1, Lit05) /\ FLe(r2, Lit05)

\* line 136
IsValid(r1, r2) ==
    /\ FGt(r1, Num(0)) /\ FGt(r2, Num(0))
    /\ FLt(r1, Lit05) /\ FLt(r2, Lit05)

\* the cash flows with no entry for the two-year investment at period 1
CashFlowData_NoFlowAbsent(r1, r2, strategy1Year1, strategy1Year2, strategy2Year2, forwardRatePct) ==
    << [period |-> 0,
        periodLabel |-> "0",
        subsequentInvestment |-> Num(-100),
        twoYearInvestment |-> Num(-100),
        oneYearBondYield |-> Null,
        impliedForwardRate |-> Null,
        twoYearLine |-> FMul(r2, Num(100)),
        twoYearLineLabel |-> FMul(r2, Num(100))],
       [period |-> 1,
        periodLabel |-> "1",
        subsequentMaturity |-> strategy1Year1,
        subsequentReinvestment |-> FNeg(strategy1Year1),
        twoYearInvestment |-> Null,
        oneYearBondYield |-> FMul(r1, Num(100)),
        impliedForwardRate |-> Null,
        twoYearLine |-> FMul(r2, Num(100)),
        twoYearLineLabel |-> Null],
       [period |-> 2,
        periodLabel |-> "2",
        subsequentInvestment |-> strategy1Year2,
        twoYearInvestment |-> strategy2Year2,
        oneYearBondYield |-> Null,
        impliedForwardRate |-> forwardRatePct,
        twoYearLine |-> FMul(r2, Num(100)),
        twoYearLineLabel |-> Null] >>

\* lines 91-126
CashFlowData(r1, r2, strategy1Year1, strategy1Year2, strategy2Year2, forwardRatePct) ==
    << [period |-> 0,
        periodLabel |-> "0",
        subsequentInvestment |-> Num(-100),
        twoYearInvestment |-> Num(-100),
        oneYearBondYield |-> Null,
        impliedForwardRate |-> Null,
        twoYearLine |-> FMul(r2, Num(100)),
        twoYearLineLabel |-> FMul(r2, Num(100))],
       [period |-> 1,
        periodLabel |-> "1",
        subsequentMaturity |-> strategy1Year1,
        subsequentReinvestment |-> FNeg(strategy1Year1),
        twoYearInvestment |-> Num(0),
        oneYearBondYield |-> FMul(r1, Num(100)),
        impliedForwardRate |-> Null,
        twoYearLine |-> FMul(r2, Num(100)),
        twoYearLineLabel |-> Null],
       [period |-> 2,
        periodLabel |-> "2",
        subsequentInvestment |-> strategy1Year2,
        twoYearInvestment |-> strategy2Year2,
        oneYearBondYield |-> Null,
        impliedForwardRate |-> forwardRatePct,
        twoYearLine |-> FMul(r2, Num(100)),
        twoYearLineLabel |-> Null] >>

calculateForwardRates(in) ==
    With(FDiv(in.oneYearRate, Num(100)), LAMBDA r1 :
    With(FDiv(in.twoYearRate, Num(100)), LAMBDA r2 :
    With(ForwardRate(r1, r2), LAMBDA forwardRate :
    With(FMul(forwardRate, Num(100)), LAMBDA forwardRatePct :
    With(Strategy1Year1(r1), LAMBDA strategy1Year1 :
    With(Strategy1Year2(strategy1Year1, forwardRate), LAMBDA strategy1Year2 :
    With(Strategy2Year2(r2), LAMBDA strategy2Year2 :
    With(ArbitrageDiff(strategy1Year2, strategy2Year2), LAMBDA arbitrageDiff :
        [forwardRate |-> forwardRatePct,
         strategy1Final |-> strategy1Year2,
         strategy2Final |-> strategy2Year2,
         strategy1Year1Value |-> strategy1Year1,
         arbitrageDiff |-> arbitrageDiff,
         noArbitrage |-> NoArbitrage(arbitrageDiff),
         cashFlowData |-> CashFlowData(r1, r2, strategy1Year1, strategy1Year2,
                                       strategy2Year2, forwardRatePct),
         isValid |-> IsValid(r1, r2)]))))))))

\* the upper bound applied from 50 on
RateError_From50(x, name) ==
    IF ~Truthy(x) \/ FLt(x, Num(0)) THEN name \o " rate must be positive"
    ELSE IF FGe(x, Num(50)) THEN name \o " rate cannot exceed 50%"
    ELSE ""

\* errors.oneYearRate and errors.twoYearRate; "" is no assignment
RateError(x, name) ==
    IF ~Truthy(x) \/ FLt(x, Num(0)) THEN name \o " rate must be positive"
    ELSE IF FGt(x, Num(50)) THEN name \o " rate cannot exceed 50%"
    ELSE ""

\* validation without the yield-curve rule
YieldCurveError_Off(in) == ""

\* errors.yieldCurve
YieldCurveError(in) ==
    IF /\ FGt(in.twoYearRate, Num(0))
       /\ FGt(in.oneYearRate, Num(0))
       /\ FLe(in.twoYearRate, in.oneYearRate)
    THEN "Two-year rate should typically be higher than one-year rate for normal yield curve"
    ELSE ""

\* the mapping from key to message; a key that was not assigned is absent
validateInputs(in) ==
    With([oneYearRate |-> RateError(in.oneYearRate, "One-year"),
          twoYearRate |-> RateError(in.twoYearRate, "Two-year"),
          yieldCurve  |-> YieldCurveError(in)],
         LAMBDA msg : [k \in {k \in DOMAIN msg : msg[k] # ""} |-> msg[k]])

\* Object.keys(errors)
ObjectKeys(errors) == DOMAIN errors

-----------------------------------------------------------------------------
(* The page: ForwardRatesCalculator holds inputs as its state; every render *)
(* validates them and computes the model.  inputErrors is a new object in   *)
(* every render, so the dependencies of useMemo never compare equal and its *)
(* factory runs in every render.                                            *)

VARIABLES
    inputs,       \* the component's state
    inputErrors,  \* validateInputs(inputs) of the last render
    model,        \* the useMemo value of the last render
    calcCalled,   \* whether the last render called calculateForwardRates
    pristine,     \* no input was edited yet
    callArgs,     \* the arguments of a direct call of the two functions
    callResult,   \* calculateForwardRates(callArgs)
    callErrors    \* validateInputs(callArgs)

pageVars == <<inputs, inputErrors, model, calcCalled, pristine>>
callVars == <<callArgs, callResult, callErrors>>
vars == <<inputs, inputErrors, model, calcCalled, pristine,
          callArgs, callResult, callErrors>>

\* the texts an input event may carry; the first MaxInput of them are used
InputValues ==
    << <<"6", ".", "3", "0">>,
       <<"8", ".", "0", "0">>,
       <<"6">>,
       <<"5", "0">>,
       <<"5", "0", ".", "0", "1">>,
       <<"0">>,
       <<"-", "1", "0", "0">>,
       <<>>,
       <<"a", "b", "c">>,
       <<"8", ".", "0", "0", "0", "0", "0", "0", "0", "0", "0", "0", "0", "0",
         "0", "0", "2">>,
       <<"-", "5">>,
       <<"0", ".", "0", "1">>,
       <<"2", "8", ".", "9", "4">>,
       <<"4", "9", ".", "9", "9">>,
       <<"I", "n", "f", "i", "n", "i", "t", "y">>,
       <<"1", "e", "-", "7">>,
       <<"7", "5">> >>

MaxInput == 15

EventValues == {InputValues[i] : i \in 1..Min(MaxInput, Len(InputValues))}

\* the Numbers a direct call is made with
ArgNumbers == {ToNumber(v) : v \in EventValues}

\* a render that computes the model whatever the validation says
ForwardRatesCalculator_NoGate(in) ==
    [inputErrors |-> validateInputs(in), model |-> calculateForwardRates(in),
     calcCalled |-> TRUE]

\* one render: the values of the component function's constants
ForwardRatesCalculator(in) ==
    With(validateInputs(in), LAMBDA errs :
        IF Cardinality(ObjectKeys(errs)) > 0
        THEN [inputErrors |-> errs, model |-> Null, calcCalled |-> FALSE]
        ELSE [inputErrors |-> errs, model |-> calculateForwardRates(in),
              calcCalled |-> TRUE])

\* the two initial rates exchanged
InitialInputs_Exchanged ==
    [oneYearRate |-> ToNumber(<<"8", ".", "0", "0">>),
     twoYearRate |-> ToNumber(<<"6", ".", "3", "0">>)]

\* lines 289-292: the initial state of useState
InitialInputs ==
    [oneYearRate |-> ToNumber(<<"6", ".", "3", "0">>),
     twoYearRate |-> ToNumber(<<"8", ".", "0", "0">>)]

Init ==
    /\ inputs = InitialInputs
    /\ With(ForwardRatesCalculator(InitialInputs), LAMBDA r :
            /\ inputErrors = r.inputErrors
            /\ model = r.model
            /\ calcCalled = r.calcCalled)
    /\ pristine = TRUE
    /\ callArgs = InitialInputs
    /\ callResult = calculateForwardRates(InitialInputs)
    /\ callErrors = validateInputs(InitialInputs)

\* dependencies that compare the one-year rates of two renders only
DepsChanged_ByOneYearRate(prev, next) == prev.oneYearRate # next.oneYearRate

\* whether useMemo finds [inputs, inputErrors] changed from the render of
\* prev to the render of next: the updater of setInputs returns a new object
\* and validateInputs returns a new object in every render, and Object.is of
\* two objects is false
DepsChanged(prev, next) == TRUE

\* setInputs(prev => ({...prev, [field]: +value})) and the render it causes;
\* useMemo keeps the model of the render before when its dependencies are
\* unchanged
handleInputChange(field, value) ==
    With([inputs EXCEPT ![field] = ToNumber(value)], LAMBDA next :
    With(ForwardRatesCalculator(next), LAMBDA r :
        /\ inputs' = next
        /\ inputErrors' = r.inputErrors
        /\ model' = IF DepsChanged(inputs, next) THEN r.model ELSE model
        /\ calcCalled' = (DepsChanged(inputs, next) /\ r.calcCalled)
        /\ pristine' = FALSE
        /\ UNCHANGED callVars))

\* onChange of the two input fields
ChangeOneYearRate == \E v \in EventValues : handleInputChange("oneYearRate", v)
ChangeTwoYearRate == \E v \in EventValues : handleInputChange("twoYearRate", v)

Next == ChangeOneYearRate \/ ChangeTwoYearRate

Spec == Init /\ [][Next]_vars

\* what the render shows
ValidationMessageShown == Cardinality(ObjectKeys(inputErrors)) > 0
FieldErrorShown(field) == field \in ObjectKeys(inputErrors)
ResultSectionShown == ~IsNull(model) /\ model.isValid

-----------------------------------------------------------------------------
(* The two functions called directly, as a test does, one argument changed  *)
(* from one call to the next.                                               *)

Call(args) ==
    /\ callArgs' = args
    /\ callResult' = calculateForwardRates(args)
    /\ callErrors' = validateInputs(args)
    /\ UNCHANGED pageVars

CallOneYearRate == \E x \in ArgNumbers : Call([callArgs EXCEPT !.oneYearRate = x])
CallTwoYearRate == \E x \in ArgNumbers : Call([callArgs EXCEPT !.twoYearRate = x])

NextFn == CallOneYearRate \/ CallTwoYearRate

SpecFn == Init /\ [][NextFn]_vars

-----------------------------------------------------------------------------
(* Numbers and domains the properties speak of.                             *)

Dec9_73    == ToNumber(<<"9", ".", "7", "3">>)
Dec116_64  == ToNumber(<<"1", "1", "6", ".", "6", "4">>)
HalfCent   == ToNumber(<<"0", ".", "0", "0", "5">>)
Tol1e9     == ToNumber(<<"1", "e", "-", "9">>)

\* strictly between 0 and 50
InOpenDomain(x) == FGt(x, Num(0)) /\ FLt(x, Num(50))
\* greater than 0 and at most 50: what the validator accepts
InValidatedDomain(x) == FGt(x, Num(0)) /\ FLe(x, Num(50))

\* x < 1/1000 for a finite x >= 0, compared exactly: m * 2^e * 1000 < 1
BelowThousandth(x) ==
    /\ IsFinite(x)
    /\ \/ IsZero(x)
       \/ /\ x.s = 0
          /\ x.e < 0
          /\ BCmp(BMulSmall(x.m, 1000), BShl(<<1>>, -x.e)) < 0

-----------------------------------------------------------------------------
(* C1: for every pair of rates strictly between 0 and 50 the result's       *)
(* arbitrageDiff is the absolute difference of strategy1Final and           *)
(* strategy2Final, it is below 0.001, and noArbitrage is true.              *)
C1_NoArbitrage ==
    (InOpenDomain(callArgs.oneYearRate) /\ InOpenDomain(callArgs.twoYearRate))
    => /\ callResult.arbitrageDiff =
            MathAbs(FSub(callResult.strategy1Final, callResult.strategy2Final))
       /\ BelowThousandth(callResult.arbitrageDiff)
       /\ callResult.noArbitrage = TRUE

\* a call inside the domain whose two strategies differ by rounding
C1_Witness ==
    /\ callArgs # InitialInputs
    /\ InOpenDomain(callArgs.oneYearRate) /\ InOpenDomain(callArgs.twoYearRate)
    /\ ~IsZero(callResult.arbitrageDiff)
    /\ callResult.noArbitrage = TRUE

-----------------------------------------------------------------------------
\* a rate given in percent, as a decimal
Decimal(pct) == FDiv(pct, Num(100))
\* (1 + r2)^2 / (1 + r1) - 1 for the rates of the last call
CallForward ==
    FSub(FDiv(MathPow2(FAdd(Num(1), Decimal(callArgs.twoYearRate))),
              FAdd(Num(1), Decimal(callArgs.oneYearRate))),
         Num(1))
\* strategy1Year1Value * (1 + forwardRate / 100) from the fields of the result
ReinvestedAtReturnedRate ==
    FMul(callResult.strategy1Year1Value,
         FAdd(Num(1), FDiv(callResult.forwardRate, Num(100))))

(* C2 as stated: whenever 1 + oneYearRate/100 is not 0, forwardRate is      *)
(* 100 * ((1 + r2)^2 / (1 + r1) - 1), strategy1Year1Value is 100 * (1 + r1),*)
(* strategy1Final is strategy1Year1Value * (1 + forwardRate/100) and        *)
(* strategy2Final is 100 * (1 + r2)^2, each evaluated in double arithmetic. *)
C2_AsStated ==
    ~IsZero(FAdd(Num(1), Decimal(callArgs.oneYearRate)))
    => /\ callResult.forwardRate = FMul(Num(100), CallForward)
       /\ callResult.strategy1Year1Value =
            FMul(Num(100), FAdd(Num(1), Decimal(callArgs.oneYearRate)))
       /\ callResult.strategy1Final = ReinvestedAtReturnedRate
       /\ callResult.strategy2Final =
            FMul(Num(100), MathPow2(FAdd(Num(1), Decimal(callArgs.twoYearRate))))

(* C2, amended: whenever 1 + oneYearRate/100 is not 0, forwardRate,         *)
(* strategy1Year1Value and strategy2Final are the stated formulas, and      *)
(* strategy1Final is strategy1Year1Value * (1 + f) with f the forward rate  *)
(* as a decimal, before its conversion to percent; for rates greater than 0 *)
(* and at most 50 it is within 1e-9 of strategy1Year1Value *                *)
(* (1 + forwardRate/100).                                                   *)
C2_Formulas ==
    ~IsZero(FAdd(Num(1), Decimal(callArgs.oneYearRate)))
    => /\ callResult.forwardRate = FMul(Num(100), CallForward)
       /\ callResult.strategy1Year1Value =
            FMul(Num(100), FAdd(Num(1), Decimal(callArgs.oneYearRate)))
       /\ callResult.strategy1Final =
            FMul(callResult.strategy1Year1Value, FAdd(Num(1), CallForward))
       /\ callResult.strategy2Final =
            FMul(Num(100), MathPow2(FAdd(Num(1), Decimal(callArgs.twoYearRate))))
       /\ (InValidatedDomain(callArgs.oneYearRate)
           /\ InValidatedDomain(callArgs.twoYearRate))
          => FLe(MathAbs(FSub(callResult.strategy1Final,
                              ReinvestedAtReturnedRate)), Tol1e9)

\* a call whose strategy1Final is not the product with the returned percentage
C2_Witness ==
    /\ ~IsZero(FAdd(Num(1), Decimal(callArgs.oneYearRate)))
    /\ InValidatedDomain(callArgs.oneYearRate)
    /\ InValidatedDomain(callArgs.twoYearRate)
    /\ callResult.strategy1Final # ReinvestedAtReturnedRate

-----------------------------------------------------------------------------
(* C3 as stated: the yield-curve advisory does not block the computation:   *)
(* when both rates are greater than 0 and at most 50 and twoYearRate is not *)
(* above oneYearRate (8 and 6, say), the validation result carries the      *)
(* yieldCurve message and no message for either field, and the model is     *)
(* still computed.                                                          *)
C3_AdvisoryNonBlocking ==
    (/\ InValidatedDomain(inputs.oneYearRate)
     /\ InValidatedDomain(inputs.twoYearRate)
     /\ FLe(inputs.twoYearRate, inputs.oneYearRate))
    => /\ "yieldCurve" \in ObjectKeys(inputErrors)
       /\ "oneYearRate" \notin ObjectKeys(inputErrors)
       /\ "twoYearRate" \notin ObjectKeys(inputErrors)
       /\ calcCalled
       /\ ~IsNull(model)

(* What the page does instead: with the advisory as the only message the    *)
(* model is null, calculateForwardRates is not called and no result is      *)
(* shown.                                                                   *)
C3_AdvisoryBlocks ==
    (/\ InValidatedDomain(inputs.oneYearRate)
     /\ InValidatedDomain(inputs.twoYearRate)
     /\ FLe(inputs.twoYearRate, inputs.oneYearRate))
    => /\ ObjectKeys(inputErrors) = {"yieldCurve"}
       /\ ~calcCalled
       /\ IsNull(model)
       /\ ~ResultSectionShown

\* the rates 8 and 6 entered in the two fields
C3_Witness ==
    /\ inputs.oneYearRate = Num(8)
    /\ inputs.twoYearRate = Num(6)
    /\ ObjectKeys(inputErrors) = {"yieldCurve"}

-----------------------------------------------------------------------------
\* missing (not a number), zero or negative
NotPositive(x) == IsNaN(x) \/ FLe(x, Num(0))

\* the message of a key, "" when the key is absent
MessageOf(errors, key) == IF key \in ObjectKeys(errors) THEN errors[key] ELSE ""

\* the hard-bound rule of one field
HardBoundRule(x, key, mustBePositive, cannotExceed) ==
    /\ MessageOf(inputErrors, key) = mustBePositive <=> NotPositive(x)
    /\ MessageOf(inputErrors, key) = cannotExceed <=> FGt(x, Num(50))
    /\ MessageOf(inputErrors, key) = "" <=> InValidatedDomain(x)
    /\ MessageOf(inputErrors, key) \in {"", mustBePositive, cannotExceed}

(* C4: for each of oneYearRate and twoYearRate the validator gives the      *)
(* 'must be positive' message exactly when the value is not a number, zero  *)
(* or negative, the 'cannot exceed 50%' message exactly when it is above    *)
(* 50, and no message for the field when it is greater than 0 and at most   *)
(* 50; a field never carries both messages.                                 *)
C4_HardBounds ==
    /\ HardBoundRule(inputs.oneYearRate, "oneYearRate",
                     "One-year rate must be positive",
                     "One-year rate cannot exceed 50%")
    /\ HardBoundRule(inputs.twoYearRate, "twoYearRate",
                     "Two-year rate must be positive",
                     "Two-year rate cannot exceed 50%")

\* one field at exactly 50 without a message, the other above 50 with one
C4_Witness ==
    /\ inputs.oneYearRate = Num(50)
    /\ "oneYearRate" \notin ObjectKeys(inputErrors)
    /\ FGt(inputs.twoYearRate, Num(50))
    /\ inputErrors["twoYearRate"] = "Two-year rate cannot exceed 50%"

\* one of the two fields has a hard error
HardError ==
    "oneYearRate" \in ObjectKeys(inputErrors)
        \/ "twoYearRate" \in ObjectKeys(inputErrors)

(* C5: while either field has a hard validation error,                      *)
(* calculateForwardRates is not called, the model is null, the validation   *)
(* messages are displayed and the result section is not.                    *)
C5_HardErrorsGate ==
    HardError
    => /\ ~calcCalled
       /\ IsNull(model)
       /\ ValidationMessageShown
       /\ \A f \in {"oneYearRate", "twoYearRate"} :
             f \in ObjectKeys(inputErrors) => FieldErrorShown(f)
       /\ ~ResultSectionShown

\* a hard error on the two-year field only, the one-year rate being valid
C5_Witness ==
    /\ ~pristine
    /\ ObjectKeys(inputErrors) = {"twoYearRate"}
    /\ InOpenDomain(inputs.oneYearRate)
    /\ IsNull(model)

-----------------------------------------------------------------------------
\* one half, exactly
Half == FDiv(Num(1), Num(2))

\* 0 < r < 0.5 for the decimal r of a rate given in percent
StrictlyInside(pct) ==
    FGt(Decimal(pct), Num(0)) /\ FLt(Decimal(pct), Half)

(* C6: isValid is true exactly when 0 < r1 < 0.5 and 0 < r2 < 0.5, both     *)
(* strict, so a rate of exactly 0 or exactly 50 gives isValid = false;      *)
(* outside that range the other fields are still computed by the same       *)
(* formulas.                                                                *)
C6_IsValid ==
    /\ callResult.isValid <=>
          (StrictlyInside(callArgs.oneYearRate)
              /\ StrictlyInside(callArgs.twoYearRate))
    /\ (\E x \in {callArgs.oneYearRate, callArgs.twoYearRate} :
            IsZero(x) \/ x = Num(50)) => ~callResult.isValid
    /\ ~callResult.isValid
       => /\ callResult.forwardRate = FMul(CallForward, Num(100))
          /\ callResult.strategy1Year1Value =
               FMul(Num(100), FAdd(Num(1), Decimal(callArgs.oneYearRate)))
          /\ callResult.strategy2Final =
               FMul(Num(100),
                    MathPow2(FAdd(Num(1), Decimal(callArgs.twoYearRate))))
          /\ callResult.strategy1Final =
               FMul(callResult.strategy1Year1Value, FAdd(Num(1), CallForward))

\* a call at exactly 50 with a rate inside the range: invalid, yet computed
C6_Witness ==
    /\ callArgs.twoYearRate = Num(50)
    /\ InOpenDomain(callArgs.oneYearRate)
    /\ ~callResult.isValid
    /\ IsFinite(callResult.forwardRate)
    /\ callResult.strategy2Final = Num(225)

-----------------------------------------------------------------------------
(* C7 as stated: on a flat curve, oneYearRate = twoYearRate = x with        *)
(* 1 + x/100 not 0, forwardRate is equal to x.                              *)
C7_FlatCurveExact ==
    (/\ callArgs.oneYearRate = callArgs.twoYearRate
     /\ ~IsZero(FAdd(Num(1), Decimal(callArgs.oneYearRate))))
    => callResult.forwardRate = callArgs.oneYearRate

(* C7, amended: on a flat curve, oneYearRate = twoYearRate = x with x       *)
(* finite, |x| at most 1000 and 1 + x/100 not 0, forwardRate is within 1e-9 *)
(* of x.                                                                    *)
C7_FlatCurve ==
    (/\ callArgs.oneYearRate = callArgs.twoYearRate
     /\ IsFinite(callArgs.oneYearRate)
     /\ FLe(MathAbs(callArgs.oneYearRate), Num(1000))
     /\ ~IsZero(FAdd(Num(1), Decimal(callArgs.oneYearRate))))
    => FLe(MathAbs(FSub(callResult.forwardRate, callArgs.oneYearRate)), Tol1e9)

\* a flat curve whose forward rate is near the rate but not equal to it
C7_Witness ==
    /\ callArgs.oneYearRate = callArgs.twoYearRate
    /\ InValidatedDomain(callArgs.oneYearRate)
    /\ callResult.forwardRate # callArgs.oneYearRate
    /\ FLe(MathAbs(FSub(callResult.forwardRate, callArgs.oneYearRate)), Tol1e9)

-----------------------------------------------------------------------------
\* a step that calls again with the same oneYearRate and a greater
\* twoYearRate, all three rates greater than 0 and at most 50
RaisesTwoYearRate ==
    /\ callArgs'.oneYearRate = callArgs.oneYearRate
    /\ InValidatedDomain(callArgs.oneYearRate)
    /\ InValidatedDomain(callArgs.twoYearRate)
    /\ InValidatedDomain(callArgs'.twoYearRate)
    /\ FLt(callArgs.twoYearRate, callArgs'.twoYearRate)

(* C8 as stated: for a fixed oneYearRate, a < b among the valid             *)
(* twoYearRates gives forwardRate(a) < forwardRate(b).                      *)
C8_StrictlyIncreasing ==
    [][RaisesTwoYearRate
         => FLt(callResult.forwardRate, callResult'.forwardRate)]_vars

(* C8, amended: for a fixed oneYearRate, a < b among the valid twoYearRates *)
(* gives forwardRate(a) <= forwardRate(b), and forwardRate(a) <             *)
(* forwardRate(b) when b - a is more than 1e-9.                             *)
C8_Increasing ==
    [][RaisesTwoYearRate
         => /\ FLe(callResult.forwardRate, callResult'.forwardRate)
            /\ FGt(FSub(callArgs'.twoYearRate, callArgs.twoYearRate), Tol1e9)
               => FLt(callResult.forwardRate, callResult'.forwardRate)]_vars

\* the call with the double next above 8, reached from the call with 8: the
\* forward rate of both is the same
C8_Witness ==
    /\ InValidatedDomain(callArgs.oneYearRate)
    /\ FGt(callArgs.twoYearRate, Num(8))
    /\ FLt(FSub(callArgs.twoYearRate, Num(8)), Tol1e9)
    /\ callResult.forwardRate =
          calculateForwardRates([callArgs EXCEPT !.twoYearRate = Num(8)]).forwardRate

-----------------------------------------------------------------------------
\* a Number: finite, infinite or NaN, and not null
IsNumber(v) == "c" \in DOMAIN v /\ v.c \in {"fin", "inf", "nan"}

(* C9: calculateForwardRates returns for every pair of Numbers, 1 + r1 = 0  *)
(* included, a result with all its fields: the five numeric fields are      *)
(* Numbers (possibly infinite or NaN), noArbitrage and isValid are          *)
(* booleans, cashFlowData has three entries; inputs outside the range are   *)
(* signalled by isValid = false and by nothing else.                        *)
C9_Total ==
    /\ DOMAIN callResult =
          {"forwardRate", "strategy1Final", "strategy2Final",
           "strategy1Year1Value", "arbitrageDiff", "noArbitrage",
           "cashFlowData", "isValid"}
    /\ \A f \in {"forwardRate", "strategy1Final", "strategy2Final",
                 "strategy1Year1Value", "arbitrageDiff"} :
          IsNumber(callResult[f])
    /\ callResult.noArbitrage \in BOOLEAN
    /\ callResult.isValid \in BOOLEAN
    /\ Len(callResult.cashFlowData) = 3
    /\ ~(StrictlyInside(callArgs.oneYearRate)
            /\ StrictlyInside(callArgs.twoYearRate))
       => callResult.isValid = FALSE

\* the call with oneYearRate = -100: a division by zero, and a result
C9_Witness ==
    /\ callArgs.oneYearRate = Num(-100)
    /\ IsFinite(callArgs.twoYearRate)
    /\ IsInf(callResult.forwardRate) \/ IsNaN(callResult.forwardRate)
    /\ IsNaN(callResult.strategy1Final)
    /\ callResult.isValid = FALSE

-----------------------------------------------------------------------------
Dec6_3 == ToNumber(<<"6", ".", "3">>)

\* |x - y| < 0.005: x shows as y with two decimals
About(x, y) == FLt(MathAbs(FSub(x, y)), HalfCent)

(* C10: before any edit the inputs are oneYearRate = 6.30 and twoYearRate = *)
(* 8.00; validation gives no message, forwardRate is about 9.73, both final *)
(* values about 116.64, isValid is true, cashFlowData has three entries for *)
(* the periods 0, 1, 2, and the result section is displayed.                *)
C10_InitialState ==
    pristine
    => /\ inputs.oneYearRate = Dec6_3
       /\ inputs.twoYearRate = Num(8)
       /\ ObjectKeys(inputErrors) = {}
       /\ ~ValidationMessageShown
       /\ ~IsNull(model)
       /\ About(model.forwardRate, Dec9_73)
       /\ About(model.strategy1Final, Dec116_64)
       /\ About(model.strategy2Final, Dec116_64)
       /\ model.isValid = TRUE
       /\ Len(model.cashFlowData) = 3
       /\ \A i \in 1..3 : model.cashFlowData[i].period = i - 1
       /\ ResultSectionShown

\* the page as first rendered
C10_Witness ==
    /\ pristine
    /\ calcCalled
    /\ model = calculateForwardRates([oneYearRate |-> Dec6_3,
                                      twoYearRate |-> Num(8)])
    /\ ResultSectionShown

-----------------------------------------------------------------------------
(* C11: after any sequence of edits of either field the validation result   *)
(* shown is validateInputs of the current inputs, and the model in use is   *)
(* calculateForwardRates of the current inputs, or null when validation     *)
(* reports a message; it is never the model of earlier inputs.              *)
C11_ModelFresh ==
    /\ inputErrors = validateInputs(inputs)
    /\ IF ObjectKeys(validateInputs(inputs)) = {}
       THEN model = calculateForwardRates(inputs)
       ELSE IsNull(model)

\* both fields edited away from their initial values, and a model in use
C11_Witness ==
    /\ ~pristine
    /\ inputs.oneYearRate # InitialInputs.oneYearRate
    /\ inputs.twoYearRate # InitialInputs.twoYearRate
    /\ ~IsNull(model)
    /\ model.forwardRate # calculateForwardRates(InitialInputs).forwardRate

-----------------------------------------------------------------------------
\* y is x with the opposite sign
Opposite(x, y) == y = [x EXCEPT !.s = 1 - x.s]

\* what C12 says of the three records, apart from the sum at period 1
CashFlowShape(cf) ==
    /\ Len(cf) = 3
    /\ \A i \in 1..3 : cf[i].period = i - 1
    /\ cf[1].subsequentInvestment = Num(-100)
    /\ cf[1].twoYearInvestment = Num(-100)
    /\ cf[2].subsequentMaturity = callResult.strategy1Year1Value
    /\ IsNaN(callResult.strategy1Year1Value)
          \/ Opposite(callResult.strategy1Year1Value,
                      cf[2].subsequentReinvestment)
    /\ cf[2].twoYearInvestment = Num(0)
    /\ cf[2].oneYearBondYield = FMul(Decimal(callArgs.oneYearRate), Num(100))
    /\ cf[3].subsequentInvestment = callResult.strategy1Final
    /\ cf[3].twoYearInvestment = callResult.strategy2Final
    /\ cf[3].impliedForwardRate = callResult.forwardRate
    /\ IsNumber(cf[1].twoYearLine)
    /\ cf[2].twoYearLine = cf[1].twoYearLine
    /\ cf[3].twoYearLine = cf[1].twoYearLine

\* maturity and reinvestment at period 1 sum to zero
Period1SumsToZero(cf) ==
    IsZero(FAdd(cf[2].subsequentMaturity, cf[2].subsequentReinvestment))

(* C12 as stated: for every input pair cashFlowData has three records with  *)
(* periods 0, 1, 2; at period 0 both strategies carry -100; at period 1 the *)
(* short strategy carries +strategy1Year1Value and -strategy1Year1Value,    *)
(* which sum to zero, the long strategy carries a present 0, and the        *)
(* one-year rate is recorded; at period 2 the strategies carry              *)
(* strategy1Final and strategy2Final and the forward rate is recorded; the  *)
(* two-year line has the same value at all three periods.                   *)
C12_CashFlowAsStated ==
    /\ CashFlowShape(callResult.cashFlowData)
    /\ Period1SumsToZero(callResult.cashFlowData)

(* C12, amended: the same, with maturity and reinvestment at period 1       *)
(* summing to zero whenever oneYearRate is a finite number; for NaN or an   *)
(* infinite oneYearRate the two values are NaN or opposite infinities and   *)
(* their sum is NaN.                                                        *)
C12_CashFlow ==
    /\ CashFlowShape(callResult.cashFlowData)
    /\ IsFinite(callArgs.oneYearRate)
          => Period1SumsToZero(callResult.cashFlowData)
    /\ ~IsFinite(callArgs.oneYearRate)
          => IsNaN(FAdd(callResult.cashFlowData[2].subsequentMaturity,
                        callResult.cashFlowData[2].subsequentReinvestment))

\* a call with finite rates other than the initial ones: 106 and -106 or the
\* like at period 1
C12_Witness ==
    /\ callArgs.oneYearRate # InitialInputs.oneYearRate
    /\ IsFinite(callArgs.oneYearRate) /\ IsFinite(callArgs.twoYearRate)
    /\ ~IsZero(callResult.cashFlowData[2].subsequentMaturity)
    /\ callResult.cashFlowData[2].subsequentReinvestment.s = 1
    /\ Period1SumsToZero(callResult.cashFlowData)

-----------------------------------------------------------------------------
(* C13 as stated: the page is never blank: in every state reached by edits  *)
(* a validation message or the result section is displayed; whenever        *)
(* validateInputs returns an empty mapping for the current inputs, the      *)
(* computed model has isValid = true.                                       *)
C13_NeverBlank ==
    /\ ValidationMessageShown \/ ResultSectionShown
    /\ ObjectKeys(validateInputs(inputs)) = {}
          => calculateForwardRates(inputs).isValid

\* twoYearRate 50 with the initial oneYearRate: no message and no result
C13_BlankPage ==
    /\ inputs.oneYearRate = Dec6_3
    /\ inputs.twoYearRate = Num(50)
    /\ ~ValidationMessageShown
    /\ ~ResultSectionShown
    /\ calcCalled

-----------------------------------------------------------------------------
(* C14: whenever the result section is displayed the current inputs satisfy *)
(* 0 < oneYearRate < twoYearRate < 50, all strict, the model's isValid and  *)
(* noArbitrage are both true, and no validation message is displayed.       *)
C14_DisplayedInDomain ==
    ResultSectionShown
    => /\ FGt(inputs.oneYearRate, Num(0))
       /\ FLt(inputs.oneYearRate, inputs.twoYearRate)
       /\ FLt(inputs.twoYearRate, Num(50))
       /\ model.isValid = TRUE
       /\ model.noArbitrage = TRUE
       /\ ~ValidationMessageShown
       /\ ObjectKeys(inputErrors) = {}

\* results displayed after both fields were edited
C14_Witness ==
    /\ ~pristine
    /\ inputs.oneYearRate # InitialInputs.oneYearRate
    /\ inputs.twoYearRate # InitialInputs.twoYearRate
    /\ ResultSectionShown
    /\ ~IsZero(model.arbitrageDiff)

=============================================================================
